---- MODULE Spec2Model ----
(***************************************************************************)
(* TopstepX -> Notion synchroniser.                                        *)
(*                                                                         *)
(*   RoundtripTransformer  (roundtrip_transformer.py)  pairs half-turn     *)
(*                         trades into round-trips;                         *)
(*   NotionRoundtripClient (notion_client.py)          publishes the       *)
(*                         round-trips to the Notion database;              *)
(*   AutoSyncManager, SyncApp (main.py)                run the pipeline on *)
(*                         a timer and on demand.                           *)
(*                                                                         *)
(* Several specifications share the module:                                *)
(*   SpecTransform, SpecSorted, SpecMatch, SpecCreate, SpecStats           *)
(*       the transformer, whole and one unit at a time;                    *)
(*   SpecSync, SpecSyncSkip, SpecSyncConcurrent        sync_roundtrips;    *)
(*   SpecSched, SpecLoop, SpecApp, SpecAuto            the scheduler and   *)
(*       the application around it;                                        *)
(*   SpecRun                                           one sync thread     *)
(*       followed through its accounts.                                    *)
(* Each one moves the variables of its own component and leaves the others *)
(* in their constructed state.                                             *)
(***************************************************************************)
EXTENDS Integers, Sequences, FiniteSets, TLC

VARIABLES
    \* RoundtripTransformer
    trades,            \* the argument of transform(): list of half-turn trades
    roundtrips,        \* self.roundtrips
    open_positions,    \* self.open_positions
    unmatched_exits,   \* self.unmatched_exits
    tr_pc,             \* "constructed" | "transformed" | "transformed_again"
    \* one turn of transform's loop over the exits of a contract
    loop_entry_queue,  \* the local entry_queue
    loop_exit_trade,   \* the local exit_trade: None before the first exit
    matched,           \* what the turn did with exit_trade: None while pending
    legs_taken,        \* how many trades of the contract were handed out so far
    \* one call of _create_roundtrip
    cr_entry_trade,    \* its argument entry_trade
    cr_exit_trade,     \* its argument exit_trade
    cr_roundtrip,      \* the dict it returns: None before the call
    \* one call of get_statistics
    statistics,        \* the dict it returns: None before the call
    \* one _sync_async thread, followed step by step
    run_pc,            \* "idle" | "get_trades" | "transform" | "sync_roundtrips"
                       \* | "except" | "finally"
    run_accounts,      \* its argument accounts
    run_i,             \* index of the account the loop is at
    run_roundtrips,    \* len(roundtrips) of that account, 0 before transform
    total_stats,       \* the dict total_stats
    run_before,        \* total_stats as the turn of that account found it
    run_e,             \* the exception e the except clause caught, else None
    \* the Notion database and the callers of sync_roundtrips
    pages,             \* the database: how many pages carry each pair of ids
    sync_pc,           \* per caller: "idle" | "query" | "loop" | "returned" | "raised"
    sync_args,         \* per caller: the arguments roundtrips, skip_existing
    existing_ids,      \* per caller: the local existing_ids
    sync_i,            \* per caller: index of the round-trip the loop is at
    stats,             \* per caller: the dict stats
    rerun,             \* per caller: this call repeats the caller's previous,
                       \* error-free call (same list, skip_existing both times)
    \* AutoSyncManager
    is_running,        \* self.is_running
    interval_minutes,  \* self.interval_minutes
    next_sync_time,    \* self.next_sync_time: None or Some(time)
    stop_event,        \* self.stop_event.is_set()
    thread,            \* self.thread: the loop thread start() created last, or None
    loops,             \* the _run_loop threads: pc, iterations left, asleep
    now,               \* the clock, in seconds
    \* SyncApp
    accounts,          \* self.accounts: the accounts a sync can target
    is_syncing,        \* self.is_syncing
    ui_queue,          \* callbacks handed to self.after(0, ...), not yet run
    pipelines,         \* the _sync_async threads
    ui_pc,             \* the UI thread: "idle", or "start" inside start_auto_sync
    ui_interval        \* the local interval of start_auto_sync

match_vars == <<loop_entry_queue, loop_exit_trade, matched, legs_taken>>
create_vars == <<cr_entry_trade, cr_exit_trade, cr_roundtrip>>
run_vars == <<run_pc, run_accounts, run_i, run_roundtrips, total_stats,
              run_before, run_e>>
unit_vars == <<match_vars, create_vars, statistics>>
tr_vars == <<trades, roundtrips, open_positions, unmatched_exits, tr_pc,
             unit_vars>>
sync_vars == <<pages, sync_pc, sync_args, existing_ids, sync_i, stats, rerun>>
mgr_vars == <<is_running, interval_minutes, next_sync_time, stop_event, thread,
              loops>>
app_vars == <<accounts, is_syncing, ui_queue, pipelines, ui_pc, ui_interval>>
sched_vars == <<mgr_vars, app_vars, now>>
vars == <<tr_vars, run_vars, sync_vars, sched_vars>>

\* Python's None, for a field that holds a number when present (<<v>>)
None == <<>>
Some(v) == <<v>>
value(opt) == opt[1]

(***************************************************************************)
(* Bounds and value sets of the transformer inputs                         *)
(***************************************************************************)
MaxTrades == 3

BUY == 0
SELL == 1
Sides == {BUY, SELL}
Contracts == {"CON.F.US.MNQ.Z25", "CON.F.US.MES.Z25"}
Sizes == {1, 2}
Timestamps == {1, 2}
\* profitAndLoss: None marks an opening leg, a number a closing leg
PnLs == {None, Some(0)}

TradeShapes ==
    [contractId : Contracts, side : Sides, size : Sizes,
     creationTimestamp : Timestamps, profitAndLoss : PnLs]

\* a trade as the API returns it: every trade carries its own id
WithId(shape, id) ==
    [id |-> id, contractId |-> shape.contractId, side |-> shape.side,
     size |-> shape.size, creationTimestamp |-> shape.creationTimestamp,
     profitAndLoss |-> shape.profitAndLoss]

(***************************************************************************)
(* RoundtripTransformer.transform and its helpers                          *)
(***************************************************************************)

\* trades_by_contract: the keys of the defaultdict, in first-insertion order
RECURSIVE contract_keys(_, _)
contract_keys(ts, seen) ==
    IF ts = <<>> THEN seen
    ELSE LET c == Head(ts).contractId IN
         IF \E k \in 1..Len(seen) : seen[k] = c
         THEN contract_keys(Tail(ts), seen)
         ELSE contract_keys(Tail(ts), Append(seen, c))

\* trades_by_contract[contract_id]: the trades of one contract, in input order
trades_by_contract(ts, contract_id) ==
    SelectSeq(ts, LAMBDA t : t.contractId = contract_id)

\* list.sort(key=...): stable, ascending.  keys[i] is the key of the i-th
\* element; insert_sorted puts index i behind every index whose key is <= its.
\* a slip: a sort that is not stable (an equal key goes in front)
RECURSIVE insert_sorted_unstable(_, _, _)
insert_sorted_unstable(sorted, i, keys) ==
    IF sorted = <<>> THEN <<i>>
    ELSE IF keys[Head(sorted)] < keys[i]
         THEN <<Head(sorted)>> \o insert_sorted_unstable(Tail(sorted), i, keys)
         ELSE <<i>> \o sorted

RECURSIVE insert_sorted(_, _, _)
insert_sorted(sorted, i, keys) ==
    IF sorted = <<>> THEN <<i>>
    ELSE IF keys[Head(sorted)] <= keys[i]
         THEN <<Head(sorted)>> \o insert_sorted(Tail(sorted), i, keys)
         ELSE <<i>> \o sorted

RECURSIVE sorted_indices(_, _)
sorted_indices(n, keys) ==
    IF n = 0 THEN <<>>
    ELSE insert_sorted(sorted_indices(n - 1, keys), n, keys)

stable_sort(s, keys) ==
    LET perm == sorted_indices(Len(s), keys)
    IN [k \in 1..Len(s) |-> s[perm[k]]]

\* contract_trades.sort(key=lambda x: x.get('creationTimestamp', ''))
sort_contract_trades(contract_trades) ==
    stable_sort(contract_trades,
                [k \in 1..Len(contract_trades) |->
                    contract_trades[k].creationTimestamp])

\* a slip: the filter left out, every trade of the contract queued as an entry
entries_of_unfiltered(contract_trades) == contract_trades

\* entries = [t for t in contract_trades if t.get('profitAndLoss') is None]
entries_of(contract_trades) ==
    SelectSeq(contract_trades, LAMBDA t : t.profitAndLoss = None)

\* a slip the split invites: testing the value instead of "is not None"
exits_of_truthy(contract_trades) ==
    SelectSeq(contract_trades,
              LAMBDA t : t.profitAndLoss # None /\ value(t.profitAndLoss) # 0)

\* exits = [t for t in contract_trades if t.get('profitAndLoss') is not None]
exits_of(contract_trades) ==
    SelectSeq(contract_trades, LAMBDA t : t.profitAndLoss # None)

remove_at(s, i) == SubSeq(s, 1, i - 1) \o SubSeq(s, i + 1, Len(s))

matches(entry, exit_trade) ==
    entry.side # exit_trade.side /\ entry.size = exit_trade.size

\* a slip: the size left out of the test, any entry of the opposite side taken
find_matching_entry_side_only(entry_queue, exit_trade) ==
    LET hits == {i \in 1..Len(entry_queue) :
                    entry_queue[i].side # exit_trade.side}
    IN IF hits = {}
       THEN [found |-> FALSE, queue |-> entry_queue]
       ELSE LET i == CHOOSE j \in hits : \A k \in hits : j <= k
            IN [found |-> TRUE, entry |-> entry_queue[i], queue |-> remove_at(entry_queue, i)]

\* a slip: "return entry_queue[i]" instead of "return entry_queue.pop(i)"
find_matching_entry_nopop(entry_queue, exit_trade) ==
    LET hits == {i \in 1..Len(entry_queue) : matches(entry_queue[i], exit_trade)}
    IN IF hits = {}
       THEN [found |-> FALSE, queue |-> entry_queue]
       ELSE LET i == CHOOSE j \in hits : \A k \in hits : j <= k
            IN [found |-> TRUE, entry |-> entry_queue[i], queue |-> entry_queue]

\* _find_matching_entry: the first entry of opposite side and equal size is
\* popped and returned; None when there is none.  The result carries the
\* queue as the call leaves it.
find_matching_entry(entry_queue, exit_trade) ==
    LET hits == {i \in 1..Len(entry_queue) : matches(entry_queue[i], exit_trade)}
    IN IF hits = {}
       THEN [found |-> FALSE, queue |-> entry_queue]
       ELSE LET i == CHOOSE j \in hits : \A k \in hits : j <= k
            IN [found |-> TRUE, entry |-> entry_queue[i], queue |-> remove_at(entry_queue, i)]

\* _create_roundtrip (the legs, direction and duration)
create_roundtrip(roundtrip_id, contract_id, entry_trade, exit_trade) ==
    [roundtrip_id |-> roundtrip_id,
     contract_id |-> contract_id,
     direction |-> IF entry_trade.side = BUY THEN "LONG" ELSE "SHORT",
     size |-> exit_trade.size,
     entry |-> [trade_id |-> entry_trade.id,
                timestamp |-> entry_trade.creationTimestamp,
                side |-> IF entry_trade.side = BUY THEN "BUY" ELSE "SELL"],
     exit |-> [trade_id |-> exit_trade.id,
               timestamp |-> exit_trade.creationTimestamp,
               side |-> IF exit_trade.side = BUY THEN "BUY" ELSE "SELL"],
     pnl |-> value(exit_trade.profitAndLoss),
     duration_seconds |-> exit_trade.creationTimestamp - entry_trade.creationTimestamp]

\* a slip: "entry_queue[0]" for "entry_queue.pop(0)" in the fallback
match_exit_keep_entry(queue, exit) ==
    IF queue = <<>>
    THEN [unmatched |-> TRUE, queue |-> queue]
    ELSE LET found == find_matching_entry(queue, exit) IN
         IF found.found
         THEN [unmatched |-> FALSE, entry |-> found.entry, queue |-> found.queue]
         ELSE [unmatched |-> FALSE, entry |-> Head(queue), queue |-> queue]

\* a slip: no fallback, an exit without a match is reported unmatched
match_exit_nofallback(queue, exit) ==
    LET found == find_matching_entry(queue, exit) IN
    IF queue = <<>> \/ ~found.found
    THEN [unmatched |-> TRUE, queue |-> queue]
    ELSE [unmatched |-> FALSE, entry |-> found.entry, queue |-> found.queue]

\* one turn of "for exit_trade in exits": unmatched when the queue is empty,
\* else the entry _find_matching_entry popped, else entry_queue.pop(0).  The
\* result carries the queue as the turn leaves it.
match_exit(queue, exit) ==
    IF queue = <<>>
    THEN [unmatched |-> TRUE, queue |-> queue]
    ELSE LET found == find_matching_entry(queue, exit) IN
         IF found.found
         THEN [unmatched |-> FALSE, entry |-> found.entry, queue |-> found.queue]
         ELSE [unmatched |-> FALSE, entry |-> Head(queue), queue |-> Tail(queue)]

\* the loop "for exit_trade in exits" of one contract.  acc carries
\* roundtrip_id, self.roundtrips and self.unmatched_exits across contracts.
RECURSIVE match_exits(_, _, _, _)
match_exits(contract_id, queue, exits, acc) ==
    IF exits = <<>> THEN [acc EXCEPT !.entry_queue = queue]
    ELSE LET exit == Head(exits)
             picked == match_exit(queue, exit)
             rid == acc.roundtrip_id + 1
         IN IF picked.unmatched
            THEN match_exits(contract_id, picked.queue, Tail(exits),
                     [acc EXCEPT !.unmatched_exits = Append(@, exit)])
            ELSE match_exits(contract_id, picked.queue, Tail(exits),
                     [acc EXCEPT
                         !.roundtrip_id = rid,
                         !.roundtrips = Append(@,
                             create_roundtrip(rid, contract_id,
                                              picked.entry, exit))])

\* the loop "for contract_id, contract_trades in trades_by_contract.items()"
RECURSIVE match_contracts(_, _, _)
match_contracts(ts, keys, acc) ==
    IF keys = <<>> THEN acc
    ELSE LET contract_id == Head(keys)
             contract_trades ==
                 sort_contract_trades(trades_by_contract(ts, contract_id))
             r == match_exits(contract_id, entries_of(contract_trades),
                              exits_of(contract_trades), acc)
         IN match_contracts(ts, Tail(keys),
                [r EXCEPT !.open_positions = @ \o r.entry_queue,
                          !.entry_queue = <<>>])

\* self.roundtrips.sort(key=lambda x: x['exit']['timestamp'])
sort_roundtrips(rts) ==
    stable_sort(rts, [k \in 1..Len(rts) |-> rts[k].exit.timestamp])

\* a slip: the final sort of self.roundtrips left out
transform_unsorted(ts) ==
    LET r == match_contracts(ts, contract_keys(ts, <<>>),
                 [roundtrip_id |-> 0, roundtrips |-> <<>>,
                  open_positions |-> <<>>, unmatched_exits |-> <<>>,
                  entry_queue |-> <<>>])
    IN [roundtrips |-> r.roundtrips,
        open_positions |-> r.open_positions,
        unmatched_exits |-> r.unmatched_exits]

\* transform(trades): the three lists it leaves in the transformer
transform(ts) ==
    LET r == match_contracts(ts, contract_keys(ts, <<>>),
                 [roundtrip_id |-> 0, roundtrips |-> <<>>,
                  open_positions |-> <<>>, unmatched_exits |-> <<>>,
                  entry_queue |-> <<>>])
    IN [roundtrips |-> sort_roundtrips(r.roundtrips),
        open_positions |-> r.open_positions,
        unmatched_exits |-> r.unmatched_exits]

(***************************************************************************)
(* NotionRoundtripClient: the database and sync_roundtrips                 *)
(***************************************************************************)
MaxList == 2        \* longest round-trip list passed to sync_roundtrips
MaxPages == 3       \* pages the database accepts before create fails

\* trade ids: 0 is what .get("trade_id", 0) yields for a leg without an id
EntryIds == {0, 7}
ExitIds == {8, 9}
IdPairs == EntryIds \X ExitIds

\* a round-trip as sync_roundtrips reads it
Roundtrip(pair) ==
    [entry |-> [trade_id |-> pair[1]], exit |-> [trade_id |-> pair[2]]]
RoundtripLists ==
    UNION {[1..n -> {Roundtrip(pair) : pair \in IdPairs}] : n \in 0..MaxList}

SyncCallers == {1, 2}
\* the caller of the sequential specifications
SeqCallers == {1}

\* unique_key = f"{entry_id}-{exit_id}"
unique_key(entry_id, exit_id) == ToString(entry_id) \o "-" \o ToString(exit_id)

\* Python truthiness of a number property
truthy(n) == n # 0

\* the pages query_database returns: one per stored page
stored_pairs == {pair \in IdPairs : pages[pair] > 0}
total_pages == LET RECURSIVE sum(_)
                   sum(S) == IF S = {} THEN 0
                             ELSE LET x == CHOOSE y \in S : TRUE
                                  IN pages[x] + sum(S \ {x})
               IN sum(IdPairs)

\* get_existing_roundtrip_ids: the keys of the pages whose two ids are truthy
get_existing_roundtrip_ids ==
    {unique_key(pair[1], pair[2]) :
        pair \in {q \in stored_pairs : truthy(q[1]) /\ truthy(q[2])}}

current_rt(c) == sync_args[c].roundtrips[sync_i[c]]
current_pair(c) == <<current_rt(c).entry.trade_id, current_rt(c).exit.trade_id>>
current_key(c) == unique_key(current_pair(c)[1], current_pair(c)[2])
in_loop(c) == sync_pc[c] = "loop" /\ sync_i[c] <= Len(sync_args[c].roundtrips)
active(c) == sync_pc[c] \in {"query", "loop"}

\* NotionRoundtripClient.__init__ against an empty database
SyncInit ==
    /\ pages = [pair \in IdPairs |-> 0]
    /\ sync_pc = [c \in SyncCallers |-> "idle"]
    /\ sync_args = [c \in SyncCallers |-> [roundtrips |-> <<>>, skip_existing |-> TRUE]]
    /\ existing_ids = [c \in SyncCallers |-> {}]
    /\ sync_i = [c \in SyncCallers |-> 1]
    /\ stats = [c \in SyncCallers |-> [created |-> 0, skipped |-> 0, errors |-> 0]]
    /\ rerun = [c \in SyncCallers |-> FALSE]

\* a slip: the keys queried whatever skip_existing says
SyncCall_always_query(c, rts, skip_existing) ==
    /\ ~active(c)
    /\ sync_args' = [sync_args EXCEPT ![c] =
                        [roundtrips |-> rts, skip_existing |-> skip_existing]]
    /\ stats' = [stats EXCEPT ![c] = [created |-> 0, skipped |-> 0, errors |-> 0]]
    /\ existing_ids' = [existing_ids EXCEPT ![c] = {}]
    /\ sync_i' = [sync_i EXCEPT ![c] = 1]
    /\ sync_pc' = [sync_pc EXCEPT ![c] = "query"]
    /\ rerun' = [rerun EXCEPT ![c] =
                    /\ sync_pc[c] = "returned"
                    /\ sync_args[c].roundtrips = rts
                    /\ sync_args[c].skip_existing /\ skip_existing
                    /\ stats[c].errors = 0]
    /\ UNCHANGED pages
    /\ UNCHANGED <<tr_vars, run_vars, sched_vars>>

\* sync_roundtrips is entered: stats is zeroed, existing_ids is the empty set
SyncCall(c, rts, skip_existing) ==
    /\ ~active(c)
    /\ sync_args' = [sync_args EXCEPT ![c] =
                        [roundtrips |-> rts, skip_existing |-> skip_existing]]
    /\ stats' = [stats EXCEPT ![c] = [created |-> 0, skipped |-> 0, errors |-> 0]]
    /\ existing_ids' = [existing_ids EXCEPT ![c] = {}]
    /\ sync_i' = [sync_i EXCEPT ![c] = 1]
    /\ sync_pc' = [sync_pc EXCEPT ![c] = IF skip_existing THEN "query" ELSE "loop"]
    /\ rerun' = [rerun EXCEPT ![c] =
                    /\ sync_pc[c] = "returned"
                    /\ sync_args[c].roundtrips = rts
                    /\ sync_args[c].skip_existing /\ skip_existing
                    /\ stats[c].errors = 0]
    /\ UNCHANGED pages
    /\ UNCHANGED <<tr_vars, run_vars, sched_vars>>

\* existing_ids = self.get_existing_roundtrip_ids(), the query answering
SyncQueryOk(c) ==
    /\ sync_pc[c] = "query"
    /\ existing_ids' = [existing_ids EXCEPT ![c] = get_existing_roundtrip_ids]
    /\ sync_pc' = [sync_pc EXCEPT ![c] = "loop"]
    /\ UNCHANGED <<pages, sync_args, sync_i, stats, rerun>>
    /\ UNCHANGED <<tr_vars, run_vars, sched_vars>>

\* a slip: the failure of the query is caught and taken for "nothing stored"
SyncQueryFail_swallowed(c) ==
    /\ sync_pc[c] = "query"
    /\ existing_ids' = [existing_ids EXCEPT ![c] = {}]
    /\ sync_pc' = [sync_pc EXCEPT ![c] = "loop"]
    /\ UNCHANGED <<pages, sync_args, sync_i, stats, rerun>>
    /\ UNCHANGED <<tr_vars, run_vars, sched_vars>>

\* the query raising (raise_for_status): the exception leaves sync_roundtrips
SyncQueryFail(c) ==
    /\ sync_pc[c] = "query"
    /\ sync_pc' = [sync_pc EXCEPT ![c] = "raised"]
    /\ UNCHANGED <<pages, sync_args, existing_ids, sync_i, stats, rerun>>
    /\ UNCHANGED <<tr_vars, run_vars, sched_vars>>

\* a slip: a bare "continue", the skipped round-trip not tallied
SyncSkip_uncounted(c) ==
    /\ in_loop(c)
    /\ current_key(c) \in existing_ids[c]
    /\ sync_i' = [sync_i EXCEPT ![c] = @ + 1]
    /\ UNCHANGED <<pages, sync_pc, sync_args, existing_ids, stats, rerun>>
    /\ UNCHANGED <<tr_vars, run_vars, sched_vars>>

\* if unique_key in existing_ids: stats["skipped"] += 1; continue
SyncSkip(c) ==
    /\ in_loop(c)
    /\ current_key(c) \in existing_ids[c]
    /\ stats' = [stats EXCEPT ![c].skipped = @ + 1]
    /\ sync_i' = [sync_i EXCEPT ![c] = @ + 1]
    /\ UNCHANGED <<pages, sync_pc, sync_args, existing_ids, rerun>>
    /\ UNCHANGED <<tr_vars, run_vars, sched_vars>>

\* a slip in the other direction: a store that refuses a second page for a
\* pair it already holds
SyncCreateOk_unique(c) ==
    /\ in_loop(c)
    /\ current_key(c) \notin existing_ids[c]
    /\ total_pages < MaxPages
    /\ pages[current_pair(c)] = 0
    /\ pages' = [pages EXCEPT ![current_pair(c)] = @ + 1]
    /\ stats' = [stats EXCEPT ![c].created = @ + 1]
    /\ sync_i' = [sync_i EXCEPT ![c] = @ + 1]
    /\ UNCHANGED <<sync_pc, sync_args, existing_ids, rerun>>
    /\ UNCHANGED <<tr_vars, run_vars, sched_vars>>

\* a slip: the key set read again after each create
SyncCreateOk_refresh(c) ==
    /\ in_loop(c)
    /\ current_key(c) \notin existing_ids[c]
    /\ total_pages < MaxPages
    /\ pages' = [pages EXCEPT ![current_pair(c)] = @ + 1]
    /\ stats' = [stats EXCEPT ![c].created = @ + 1]
    /\ sync_i' = [sync_i EXCEPT ![c] = @ + 1]
    /\ existing_ids' = [existing_ids EXCEPT ![c] =
                           @ \cup {unique_key(q[1], q[2]) :
                                     q \in {r \in IdPairs :
                                               /\ pages'[r] > 0
                                               /\ truthy(r[1]) /\ truthy(r[2])}}]
    /\ UNCHANGED <<sync_pc, sync_args, rerun>>
    /\ UNCHANGED <<tr_vars, run_vars, sched_vars>>

\* create_roundtrip_entry succeeds: the page exists, stats["created"] += 1
SyncCreateOk(c) ==
    /\ in_loop(c)
    /\ current_key(c) \notin existing_ids[c]
    /\ total_pages < MaxPages
    /\ pages' = [pages EXCEPT ![current_pair(c)] = @ + 1]
    /\ stats' = [stats EXCEPT ![c].created = @ + 1]
    /\ sync_i' = [sync_i EXCEPT ![c] = @ + 1]
    /\ UNCHANGED <<sync_pc, sync_args, existing_ids, rerun>>
    /\ UNCHANGED <<tr_vars, run_vars, sched_vars>>

\* a slip: no try/except around the create, the exception ends the call
SyncCreateFail_uncaught(c) ==
    /\ in_loop(c)
    /\ current_key(c) \notin existing_ids[c]
    /\ sync_pc' = [sync_pc EXCEPT ![c] = "raised"]
    /\ UNCHANGED <<pages, sync_args, existing_ids, sync_i, stats, rerun>>
    /\ UNCHANGED <<tr_vars, run_vars, sched_vars>>

\* create_roundtrip_entry raises: except Exception: stats["errors"] += 1
SyncCreateFail(c) ==
    /\ in_loop(c)
    /\ current_key(c) \notin existing_ids[c]
    /\ stats' = [stats EXCEPT ![c].errors = @ + 1]
    /\ sync_i' = [sync_i EXCEPT ![c] = @ + 1]
    /\ UNCHANGED <<pages, sync_pc, sync_args, existing_ids, rerun>>
    /\ UNCHANGED <<tr_vars, run_vars, sched_vars>>

\* return stats
SyncReturn(c) ==
    /\ sync_pc[c] = "loop"
    /\ sync_i[c] > Len(sync_args[c].roundtrips)
    /\ sync_pc' = [sync_pc EXCEPT ![c] = "returned"]
    /\ UNCHANGED <<pages, sync_args, existing_ids, sync_i, stats, rerun>>
    /\ UNCHANGED <<tr_vars, run_vars, sched_vars>>

(***************************************************************************)
(* AutoSyncManager and the SyncApp handlers that drive it (main.py)        *)
(***************************************************************************)
MaxLoops == 2          \* _run_loop threads alive at a time
MaxPipelines == 2      \* _sync_async threads alive at a time
MaxQueue == 2          \* after(0, ...) callbacks pending at a time
MaxNow == 2            \* the clock stops here
TicksPerMinute == 1    \* seconds in a minute, scaled down (wait_seconds)
DefaultInterval == 30  \* self.interval_minutes = 30

\* the intervals the caller may ask for, in minutes
Intervals == {1, 2}

\* self.accounts once the account list is loaded
AllAccounts == {"EXPRESS-V2-140427", "PRACTICE-1"}

LoopIds == 1..MaxLoops
PipelineIds == 1..MaxPipelines

\* a thread that does not exist (not started yet, or ended)
no_loop == [pc |-> "none", left |-> 0, asleep |-> FALSE, cancelled |-> FALSE]

free_loops == {l \in LoopIds : loops[l].pc = "none"}
new_loop == CHOOSE l \in free_loops : \A k \in free_loops : l <= k

free_pipelines == {p \in PipelineIds : pipelines[p] = "none"}
new_pipeline == CHOOSE p \in free_pipelines : \A k \in free_pipelines : p <= k
running_pipelines == {p \in PipelineIds : pipelines[p] = "running"}

\* AutoSyncManager.__init__ and SyncApp.__init__
SchedInit ==
    /\ is_running = FALSE
    /\ interval_minutes = DefaultInterval
    /\ next_sync_time = None
    /\ stop_event = FALSE
    /\ thread = None
    /\ loops = [l \in LoopIds |-> no_loop]
    /\ now = 0
    /\ is_syncing = FALSE
    /\ ui_queue = <<>>
    /\ pipelines = [p \in PipelineIds |-> "none"]
    /\ ui_pc = "idle"
    /\ ui_interval = DefaultInterval

\* a slip: start() without its "if self.is_running: return"
start_unguarded(interval) ==
    /\ free_loops # {}
    /\ interval_minutes' = interval
    /\ is_running' = TRUE
    /\ stop_event' = FALSE
    /\ thread' = Some(new_loop)
    /\ loops' = [loops EXCEPT ![new_loop].pc = "while"]
    /\ UNCHANGED next_sync_time

\* AutoSyncManager.start
start(interval) ==
    IF is_running
    THEN UNCHANGED <<is_running, interval_minutes, next_sync_time, stop_event,
                     thread, loops>>
    ELSE /\ free_loops # {}
         /\ interval_minutes' = interval
         /\ is_running' = TRUE
         /\ stop_event' = FALSE
         /\ thread' = Some(new_loop)
         /\ loops' = [loops EXCEPT ![new_loop].pc = "while"]
         /\ UNCHANGED next_sync_time

\* AutoSyncManager.stop.  (cancelled notes the loops that were in their wait.)
stop ==
    /\ is_running' = FALSE
    /\ stop_event' = TRUE
    /\ next_sync_time' = None
    /\ loops' = [l \in LoopIds |->
                    IF loops[l].pc = "wait"
                    THEN [loops[l] EXCEPT !.cancelled = TRUE]
                    ELSE loops[l]]
    /\ UNCHANGED <<interval_minutes, thread>>

\* AutoSyncManager.get_remaining_time: "--:--", "syncing" or <<MM, SS>>
get_remaining_time ==
    IF next_sync_time = None THEN <<"--:--">>
    ELSE LET remaining == value(next_sync_time) - now IN
         IF remaining <= 0 THEN <<"syncing">>
         ELSE <<remaining \div 60, remaining % 60>>

\* SyncApp._auto_sync_callback, run by a loop thread or by start_auto_sync
auto_sync_callback ==
    IF is_syncing \/ accounts = {}
    THEN UNCHANGED <<is_syncing, ui_queue, pipelines>>
    ELSE /\ free_pipelines # {}
         /\ Len(ui_queue) < MaxQueue
         /\ ui_queue' = Append(ui_queue, "_start_sync_ui")
         /\ pipelines' = [pipelines EXCEPT ![new_pipeline] = "running"]
         /\ UNCHANGED is_syncing

\* the _run_loop thread returns
loop_ends(l) == [loops EXCEPT ![l] = no_loop]

\* _run_loop, line "while self.is_running and not self.stop_event.is_set()"
LoopWhile(l) ==
    /\ loops[l].pc = "while"
    /\ loops' = IF is_running /\ ~stop_event
                THEN [loops EXCEPT ![l].pc = "set_next"]
                ELSE loop_ends(l)
    /\ UNCHANGED <<is_running, interval_minutes, next_sync_time, stop_event,
                   thread, app_vars, now>>
    /\ UNCHANGED <<tr_vars, run_vars, sync_vars>>

\* self.next_sync_time = now + interval; wait_seconds = interval_minutes * 60
LoopSetNext(l) ==
    /\ loops[l].pc = "set_next"
    /\ next_sync_time' = Some(now + interval_minutes * TicksPerMinute)
    /\ loops' = [loops EXCEPT ![l].left = interval_minutes * TicksPerMinute,
                              ![l].pc = IF interval_minutes * TicksPerMinute > 0
                                        THEN "wait" ELSE "check"]
    /\ UNCHANGED <<is_running, interval_minutes, stop_event, thread,
                   app_vars, now>>
    /\ UNCHANGED <<tr_vars, run_vars, sync_vars>>

\* one turn of "for _ in range(wait_seconds)": return if the event is set,
\* else time.sleep(1)
LoopWait(l) ==
    /\ loops[l].pc = "wait"
    /\ ~loops[l].asleep
    /\ loops' = IF stop_event
                THEN loop_ends(l)
                ELSE [loops EXCEPT ![l].left = @ - 1,
                                   ![l].asleep = TRUE,
                                   ![l].pc = IF loops[l].left = 1 THEN "check"
                                             ELSE "wait"]
    /\ UNCHANGED <<is_running, interval_minutes, next_sync_time, stop_event,
                   thread, app_vars, now>>
    /\ UNCHANGED <<tr_vars, run_vars, sync_vars>>

\* "if self.is_running and not self.stop_event.is_set()" behind the wait
LoopCheck(l) ==
    /\ loops[l].pc = "check"
    /\ ~loops[l].asleep
    /\ loops' = [loops EXCEPT ![l].pc =
                    IF is_running /\ ~stop_event THEN "callback" ELSE "while"]
    /\ UNCHANGED <<is_running, interval_minutes, next_sync_time, stop_event,
                   thread, app_vars, now>>
    /\ UNCHANGED <<tr_vars, run_vars, sync_vars>>

\* a slip: the thread returning after its first callback
LoopCallback_once(l) ==
    /\ loops[l].pc = "callback"
    /\ auto_sync_callback
    /\ loops' = loop_ends(l)
    /\ UNCHANGED <<is_running, interval_minutes, next_sync_time, stop_event,
                   thread, accounts, ui_pc, ui_interval, now>>
    /\ UNCHANGED <<tr_vars, run_vars, sync_vars>>

\* self.callback()
LoopCallback(l) ==
    /\ loops[l].pc = "callback"
    /\ auto_sync_callback
    /\ loops' = [loops EXCEPT ![l].pc = "while"]
    /\ UNCHANGED <<is_running, interval_minutes, next_sync_time, stop_event,
                   thread, accounts, ui_pc, ui_interval, now>>
    /\ UNCHANGED <<tr_vars, run_vars, sync_vars>>

\* a second passes: every time.sleep(1) under way is over
Tick ==
    /\ now < MaxNow
    /\ now' = now + 1
    /\ loops' = [l \in LoopIds |-> [loops[l] EXCEPT !.asleep = FALSE]]
    /\ UNCHANGED <<is_running, interval_minutes, next_sync_time, stop_event,
                   thread, app_vars>>
    /\ UNCHANGED <<tr_vars, run_vars, sync_vars>>

\* a second passes, with no last second: the clock is read within a window of
\* MaxNow seconds, and past the window it is the recorded time that moves
\* back (a next_sync_time at or before now reads "syncing" wherever it is)
TickOn ==
    /\ now' = IF now < MaxNow THEN now + 1 ELSE now
    /\ next_sync_time' =
           IF now < MaxNow \/ next_sync_time = None THEN next_sync_time
           ELSE Some(IF value(next_sync_time) > 0
                     THEN value(next_sync_time) - 1 ELSE 0)
    /\ loops' = [l \in LoopIds |-> [loops[l] EXCEPT !.asleep = FALSE]]
    /\ UNCHANGED <<is_running, interval_minutes, stop_event, thread, app_vars>>
    /\ UNCHANGED <<tr_vars, run_vars, sync_vars>>

\* SyncApp.start_auto_sync / _start_auto_sync_restored up to and including
\* self._auto_sync_callback()
StartAutoSync(interval) ==
    /\ ui_pc = "idle"
    /\ ui_interval' = interval
    /\ auto_sync_callback
    /\ ui_pc' = "start"
    /\ UNCHANGED <<accounts, mgr_vars, now>>
    /\ UNCHANGED <<tr_vars, run_vars, sync_vars>>

\* ... and its last line, self.auto_sync.start(interval)
StartAutoSyncStart ==
    /\ ui_pc = "start"
    /\ start(ui_interval)
    /\ ui_pc' = "idle"
    /\ UNCHANGED <<accounts, is_syncing, ui_queue, pipelines, ui_interval, now>>
    /\ UNCHANGED <<tr_vars, run_vars, sync_vars>>

\* a slip: stopping the scheduler also throws the running syncs away
StopAutoSync_cancels ==
    /\ ui_pc = "idle"
    /\ stop
    /\ pipelines' = [p \in PipelineIds |-> "none"]
    /\ UNCHANGED <<accounts, is_syncing, ui_queue, ui_pc, ui_interval, now>>
    /\ UNCHANGED <<tr_vars, run_vars, sync_vars>>

\* SyncApp.stop_auto_sync
StopAutoSync ==
    /\ ui_pc = "idle"
    /\ stop
    /\ UNCHANGED <<app_vars, now>>
    /\ UNCHANGED <<tr_vars, run_vars, sync_vars>>

\* the body shared by start_sync and start_sync_all: return if is_syncing or
\* there is nothing to sync, else _start_sync_ui() and the _sync_async thread
start_manual_sync(has_target) ==
    /\ ui_pc = "idle"
    /\ IF is_syncing \/ ~has_target
       THEN UNCHANGED <<is_syncing, pipelines>>
       ELSE /\ free_pipelines # {}
            /\ is_syncing' = TRUE
            /\ pipelines' = [pipelines EXCEPT ![new_pipeline] = "running"]
    /\ UNCHANGED <<accounts, ui_queue, ui_pc, ui_interval, mgr_vars, now>>
    /\ UNCHANGED <<tr_vars, run_vars, sync_vars>>

\* SyncApp.start_sync: the selected account, if there is one
StartSync == start_manual_sync(accounts # {})

\* SyncApp.start_sync_all: all accounts, if the user confirms
StartSyncAll ==
    \E result \in BOOLEAN : start_manual_sync(accounts # {} /\ result)

\* the UI thread runs the oldest pending after(0, ...) callback:
\* _start_sync_ui sets is_syncing, _sync_complete clears it
UiAfter ==
    /\ ui_pc = "idle"
    /\ ui_queue # <<>>
    /\ is_syncing' = (Head(ui_queue) = "_start_sync_ui")
    /\ ui_queue' = Tail(ui_queue)
    /\ UNCHANGED <<accounts, pipelines, ui_pc, ui_interval, mgr_vars, now>>
    /\ UNCHANGED <<tr_vars, run_vars, sync_vars>>

\* _sync_async runs to its finally: self.after(0, self._sync_complete)
PipelineFinish(p) ==
    /\ pipelines[p] = "running"
    /\ Len(ui_queue) < MaxQueue
    /\ pipelines' = [pipelines EXCEPT ![p] = "none"]
    /\ ui_queue' = Append(ui_queue, "_sync_complete")
    /\ UNCHANGED <<accounts, is_syncing, ui_pc, ui_interval, mgr_vars, now>>
    /\ UNCHANGED <<tr_vars, run_vars, sync_vars>>

(***************************************************************************)
(* SyncApp._sync_async, one thread followed step by step                   *)
(***************************************************************************)
MaxRunRoundtrips == 2    \* round-trips transform finds for one account

\* self.accounts, in the order of the list
AccountOrder == <<"EXPRESS-V2-140427", "PRACTICE-1">>
\* the argument accounts: the selected account, or all of them
AccountLists == {<<a>> : a \in AllAccounts} \cup {AccountOrder}

zero_totals == [roundtrips |-> 0, created |-> 0, skipped |-> 0, errors |-> 0]

\* what sync_roundtrips returns for a list of n round-trips
SyncResults(n) ==
    {r \in [created : 0..n, skipped : 0..n, errors : 0..n] :
        r.created + r.skipped + r.errors = n}

\* no _sync_async thread is followed
RunIdle ==
    /\ run_pc = "idle"
    /\ run_accounts = <<>>
    /\ run_i = 1
    /\ run_roundtrips = 0
    /\ total_stats = zero_totals
    /\ run_before = zero_totals
    /\ run_e = None

\* _sync_async is entered: total_stats = {...: 0}, the loop at its first account
run_begin(accts) ==
    /\ run_pc' = "get_trades"
    /\ run_accounts' = accts
    /\ run_i' = 1
    /\ run_roundtrips' = 0
    /\ total_stats' = zero_totals
    /\ run_before' = zero_totals
    /\ run_e' = None

\* the loop goes on to the next account, or leaves for the finally clause
run_next(totals) ==
    /\ total_stats' = totals
    /\ run_i' = run_i + 1
    /\ run_roundtrips' = 0
    /\ run_before' = totals
    /\ run_e' = None
    /\ run_pc' = IF run_i + 1 > Len(run_accounts) THEN "finally"
                 ELSE "get_trades"
    /\ UNCHANGED run_accounts

run_frame ==
    /\ UNCHANGED <<trades, roundtrips, open_positions, unmatched_exits, tr_pc,
                   match_vars, create_vars, statistics, sync_vars>>
    /\ UNCHANGED <<mgr_vars, now, accounts, pipelines, ui_pc, ui_interval>>

\* start_sync / start_sync_all not returning early: _start_sync_ui() at once,
\* then the thread
RunStartManual(accts) ==
    /\ ui_pc = "idle"
    /\ run_pc = "idle"
    /\ ~is_syncing
    /\ is_syncing' = TRUE
    /\ run_begin(accts)
    /\ UNCHANGED ui_queue
    /\ run_frame

\* _auto_sync_callback not returning early: after(0, self._start_sync_ui),
\* then the thread
RunStartAuto(accts) ==
    /\ run_pc = "idle"
    /\ ~is_syncing
    /\ Len(ui_queue) < MaxQueue
    /\ ui_queue' = Append(ui_queue, "_start_sync_ui")
    /\ run_begin(accts)
    /\ UNCHANGED is_syncing
    /\ run_frame

\* trades = self.topstepx.get_trades(...) returns; "if not trades: continue"
RunGetTrades(empty) ==
    /\ run_pc = "get_trades"
    /\ IF empty
       THEN run_next(total_stats)
       ELSE /\ run_pc' = "transform"
            /\ UNCHANGED <<run_accounts, run_i, run_roundtrips, total_stats,
                           run_before, run_e>>
    /\ UNCHANGED <<is_syncing, ui_queue>>
    /\ run_frame

\* get_trades raises
RunGetTradesRaises ==
    /\ run_pc = "get_trades"
    /\ run_pc' = "except"
    /\ run_e' = Some("get_trades")
    /\ UNCHANGED <<run_accounts, run_i, run_roundtrips, total_stats, run_before>>
    /\ UNCHANGED <<is_syncing, ui_queue>>
    /\ run_frame

\* roundtrips = transformer.transform(trades) returns n round-trips;
\* "if not roundtrips: continue", else total_stats["roundtrips"] += n
RunTransform(n) ==
    /\ run_pc = "transform"
    /\ IF n = 0
       THEN run_next(total_stats)
       ELSE /\ run_pc' = "sync_roundtrips"
            /\ run_roundtrips' = n
            /\ total_stats' = [total_stats EXCEPT !.roundtrips = @ + n]
            /\ UNCHANGED <<run_accounts, run_i, run_before, run_e>>
    /\ UNCHANGED <<is_syncing, ui_queue>>
    /\ run_frame

\* transform raises (a trade it cannot read)
RunTransformRaises ==
    /\ run_pc = "transform"
    /\ run_pc' = "except"
    /\ run_e' = Some("transform")
    /\ UNCHANGED <<run_accounts, run_i, run_roundtrips, total_stats, run_before>>
    /\ UNCHANGED <<is_syncing, ui_queue>>
    /\ run_frame

\* sync_result = self.notion.sync_roundtrips(...) returns; the three sums
RunSync(sync_result) ==
    /\ run_pc = "sync_roundtrips"
    /\ run_next([total_stats EXCEPT
                    !.created = @ + sync_result.created,
                    !.skipped = @ + sync_result.skipped,
                    !.errors = @ + sync_result.errors])
    /\ UNCHANGED <<is_syncing, ui_queue>>
    /\ run_frame

\* sync_roundtrips raises (its query of the existing keys failed)
RunSyncRaises ==
    /\ run_pc = "sync_roundtrips"
    /\ run_pc' = "except"
    /\ run_e' = Some("sync_roundtrips")
    /\ UNCHANGED <<run_accounts, run_i, run_roundtrips, total_stats, run_before>>
    /\ UNCHANGED <<is_syncing, ui_queue>>
    /\ run_frame

\* a slip: "break" in the except clause, the other accounts left out
RunExcept_break ==
    /\ run_pc = "except"
    /\ total_stats' = [total_stats EXCEPT !.errors = @ + 1]
    /\ run_pc' = "finally"
    /\ run_before' = [total_stats EXCEPT !.errors = @ + 1]
    /\ run_e' = None
    /\ UNCHANGED <<run_accounts, run_i, run_roundtrips>>
    /\ UNCHANGED <<is_syncing, ui_queue>>
    /\ run_frame

\* except Exception as e: total_stats["errors"] += 1, and the loop goes on
RunExcept ==
    /\ run_pc = "except"
    /\ run_next([total_stats EXCEPT !.errors = @ + 1])
    /\ UNCHANGED <<is_syncing, ui_queue>>
    /\ run_frame

\* a slip: the thread ending without its after(0, self._sync_complete)
RunFinally_silent ==
    /\ run_pc = "finally"
    /\ run_pc' = "idle"
    /\ UNCHANGED <<run_accounts, run_i, run_roundtrips, total_stats, run_before,
                   run_e>>
    /\ UNCHANGED <<is_syncing, ui_queue>>
    /\ run_frame

\* finally: self.after(0, self._sync_complete); the thread ends
RunFinally ==
    /\ run_pc = "finally"
    /\ Len(ui_queue) < MaxQueue
    /\ ui_queue' = Append(ui_queue, "_sync_complete")
    /\ run_pc' = "idle"
    /\ UNCHANGED <<run_accounts, run_i, run_roundtrips, total_stats, run_before,
                   run_e>>
    /\ UNCHANGED is_syncing
    /\ run_frame

(***************************************************************************)
(* The transformer as a state machine                                      *)
(***************************************************************************)
\* RoundtripTransformer.__init__
TransformerInit ==
    /\ roundtrips = <<>>
    /\ open_positions = <<>>
    /\ unmatched_exits = <<>>
    /\ tr_pc = "constructed"

\* the caller collects the trade list it will pass (get_trades): one more
\* trade.  Contract ids and sizes are only compared for equality, so the first
\* trade fixes which contract and which size come first.
FetchTrade(shape) ==
    /\ tr_pc = "constructed"
    /\ Len(trades) < MaxTrades
    /\ trades = <<>> => shape.contractId = "CON.F.US.MNQ.Z25" /\ shape.size = 1
    /\ trades' = Append(trades, WithId(shape, Len(trades) + 1))
    /\ UNCHANGED <<roundtrips, open_positions, unmatched_exits, tr_pc>>
    /\ UNCHANGED <<unit_vars, run_vars, sync_vars, sched_vars>>

\* a longer list of plainer trades, for the order of the result across
\* contracts: long trades of size 1 (side and size play no part in the sorts),
\* three timestamps.  Two round-trips take four trades.
MaxSorted == 4
SortedTimestamps == {1, 2, 3}
SortedShapes ==
    {shape \in [contractId : Contracts, side : Sides, size : {1},
                creationTimestamp : SortedTimestamps, profitAndLoss : PnLs] :
        shape.side = BUY <=> shape.profitAndLoss = None}

FetchSortedTrade(shape) ==
    /\ tr_pc = "constructed"
    /\ Len(trades) < MaxSorted
    /\ trades' = Append(trades, WithId(shape, Len(trades) + 1))
    /\ UNCHANGED <<roundtrips, open_positions, unmatched_exits, tr_pc>>
    /\ UNCHANGED <<unit_vars, run_vars, sync_vars, sched_vars>>

Transform ==
    /\ tr_pc = "constructed"
    /\ LET r == transform(trades) IN
         /\ roundtrips' = r.roundtrips
         /\ open_positions' = r.open_positions
         /\ unmatched_exits' = r.unmatched_exits
    /\ tr_pc' = "transformed"
    /\ UNCHANGED trades
    /\ UNCHANGED <<unit_vars, run_vars, sync_vars, sched_vars>>

\* transform called once more on the same transformer with the same list: it
\* empties the three lists (self.roundtrips = [] ...) and fills them again
TransformAgain ==
    /\ tr_pc = "transformed"
    /\ LET r == transform(trades) IN
         /\ roundtrips' = r.roundtrips
         /\ open_positions' = r.open_positions
         /\ unmatched_exits' = r.unmatched_exits
    /\ tr_pc' = "transformed_again"
    /\ UNCHANGED trades
    /\ UNCHANGED <<unit_vars, run_vars, sync_vars, sched_vars>>

(***************************************************************************)
(* One turn of the loop over the exits, on its own                         *)
(***************************************************************************)
MaxLegs == 4      \* trades of the contract handed to the loop

\* the trades of one contract, as transform sorted them
LegShapes == {shape \in TradeShapes :
                 shape.contractId = "CON.F.US.MNQ.Z25"}

last_timestamp ==
    IF loop_exit_trade # None THEN value(loop_exit_trade).creationTimestamp
    ELSE IF loop_entry_queue # <<>>
         THEN loop_entry_queue[Len(loop_entry_queue)].creationTimestamp
         ELSE 0

\* before the loop: entry_queue = list(entries), nothing taken yet
MatchInit ==
    /\ loop_entry_queue = <<>>
    /\ loop_exit_trade = None
    /\ matched = None
    /\ legs_taken = 0

\* entry_queue = list(entries): one more opening leg, in timestamp order
QueueEntry(shape) ==
    /\ loop_exit_trade = None
    /\ legs_taken < MaxLegs
    /\ shape.profitAndLoss = None
    /\ shape.creationTimestamp >= last_timestamp
    /\ loop_entry_queue' = Append(loop_entry_queue, WithId(shape, legs_taken + 1))
    /\ legs_taken' = legs_taken + 1
    /\ UNCHANGED <<loop_exit_trade, matched>>
    /\ UNCHANGED <<trades, roundtrips, open_positions, unmatched_exits, tr_pc,
                   create_vars, statistics, run_vars, sync_vars,
                   sched_vars>>

\* "for exit_trade in exits": the next closing leg, in timestamp order
NextExit(shape) ==
    /\ loop_exit_trade = None \/ matched # None
    /\ legs_taken < MaxLegs
    /\ shape.profitAndLoss # None
    /\ loop_exit_trade # None =>
           shape.creationTimestamp >= value(loop_exit_trade).creationTimestamp
    /\ loop_exit_trade' = Some(WithId(shape, legs_taken + 1))
    /\ matched' = None
    /\ legs_taken' = legs_taken + 1
    /\ UNCHANGED loop_entry_queue
    /\ UNCHANGED <<trades, roundtrips, open_positions, unmatched_exits, tr_pc,
                   create_vars, statistics, run_vars, sync_vars,
                   sched_vars>>

\* the body of the loop for exit_trade
MatchExit ==
    /\ loop_exit_trade # None
    /\ matched = None
    /\ LET r == match_exit(loop_entry_queue, value(loop_exit_trade)) IN
         /\ loop_entry_queue' = r.queue
         /\ matched' = Some(IF r.unmatched
                            THEN [unmatched |-> TRUE]
                            ELSE [unmatched |-> FALSE, entry |-> r.entry])
    /\ UNCHANGED <<loop_exit_trade, legs_taken>>
    /\ UNCHANGED <<trades, roundtrips, open_positions, unmatched_exits, tr_pc,
                   create_vars, statistics, run_vars, sync_vars,
                   sched_vars>>

(***************************************************************************)
(* _create_roundtrip: the amounts of a round-trip                          *)
(***************************************************************************)
\* Money and prices are counted in thousandths.  Every input amount is a
\* multiple of 1/8, which a float holds exactly: the float sums and
\* differences below are exact, and round(x, 2) is rounding to the nearest
\* hundredth, a tie going to the even hundredth.
Prices == {100000, 105000, 100125}
\* fees: None stands for a missing or null field
Fees == {None, Some(0), Some(500), Some(375)}
RealizedPnls == {10000, -5000, 2625}

EntryLegs ==
    [side : Sides, size : Sizes, price : Prices, fees : Fees,
     profitAndLoss : {None}]
ExitLegs ==
    [side : Sides, size : Sizes, price : Prices, fees : Fees,
     profitAndLoss : {Some(p) : p \in RealizedPnls}]

\* round(x, 2)
round2(x) ==
    LET q == x \div 10
        r == x % 10
    IN IF r < 5 THEN 10 * q
       ELSE IF r > 5 THEN 10 * (q + 1)
       ELSE IF q % 2 = 0 THEN 10 * q ELSE 10 * (q + 1)

\* float(trade.get('fees', 0) or 0)
fees_or_zero(trade) == IF trade.fees = None THEN 0 ELSE value(trade.fees)

\* a slip: the direction left out of the points
create_roundtrip_amounts_long_only(entry_trade, exit_trade) ==
    LET total_fees == fees_or_zero(entry_trade) + fees_or_zero(exit_trade)
        pnl == value(exit_trade.profitAndLoss)
    IN [direction |-> IF entry_trade.side = BUY THEN "LONG" ELSE "SHORT",
        size |-> exit_trade.size,
        entry |-> [price |-> entry_trade.price,
                   side |-> IF entry_trade.side = BUY THEN "BUY" ELSE "SELL",
                   fees |-> fees_or_zero(entry_trade)],
        exit |-> [price |-> exit_trade.price,
                  side |-> IF exit_trade.side = BUY THEN "BUY" ELSE "SELL",
                  fees |-> fees_or_zero(exit_trade)],
        pnl |-> pnl,
        total_fees |-> total_fees,
        net_pnl |-> round2(pnl - total_fees),
        points |-> round2(exit_trade.price - entry_trade.price)]

\* _create_roundtrip: direction, points, fees, pnl and net_pnl of the dict
create_roundtrip_amounts(entry_trade, exit_trade) ==
    LET direction == IF entry_trade.side = BUY THEN "LONG" ELSE "SHORT"
        entry_price == entry_trade.price
        exit_price == exit_trade.price
        points == IF direction = "LONG" THEN exit_price - entry_price
                  ELSE entry_price - exit_price
        entry_fees == fees_or_zero(entry_trade)
        exit_fees == fees_or_zero(exit_trade)
        total_fees == entry_fees + exit_fees
        pnl == value(exit_trade.profitAndLoss)
        net_pnl == pnl - total_fees
    IN [direction |-> direction,
        size |-> exit_trade.size,
        entry |-> [price |-> entry_price,
                   side |-> IF entry_trade.side = BUY THEN "BUY" ELSE "SELL",
                   fees |-> entry_fees],
        exit |-> [price |-> exit_price,
                  side |-> IF exit_trade.side = BUY THEN "BUY" ELSE "SELL",
                  fees |-> exit_fees],
        pnl |-> pnl,
        total_fees |-> total_fees,
        net_pnl |-> round2(net_pnl),
        points |-> round2(points)]

\* the caller has paired an entry with an exit
CreateInit ==
    /\ cr_entry_trade \in {Some(t) : t \in EntryLegs}
    /\ cr_exit_trade \in {Some(t) : t \in ExitLegs}
    /\ cr_roundtrip = None

\* self._create_roundtrip(roundtrip_id, contract_id, entry_trade, exit_trade)
CreateRoundtrip ==
    /\ cr_entry_trade # None
    /\ cr_roundtrip = None
    /\ cr_roundtrip' = Some(create_roundtrip_amounts(value(cr_entry_trade),
                                                     value(cr_exit_trade)))
    /\ UNCHANGED <<cr_entry_trade, cr_exit_trade>>
    /\ UNCHANGED <<trades, roundtrips, open_positions, unmatched_exits, tr_pc,
                   match_vars, statistics, run_vars, sync_vars,
                   sched_vars>>

(***************************************************************************)
(* get_statistics                                                          *)
(***************************************************************************)
MaxStats == 3     \* round-trips in the list get_statistics reads

\* The fields of a round-trip that get_statistics and _group_stats read.
\* pnl and total_fees in thousandths, as above; the pnl values are chosen so
\* that no quotient below falls half-way between two rounded values.
StatPnls == {10000, 0, -3000}
StatDurations == {30, 61}
StatRoundtrips ==
    [pnl : StatPnls, total_fees : {1000}, direction : {"LONG", "SHORT"},
     contract : {"MNQ", "MES"}, duration_seconds : StatDurations]

StatLists ==
    UNION {[1..n -> StatRoundtrips] : n \in 0..MaxStats}

RECURSIVE sum_of(_, _)
\* sum(rt[key] for rt in rts)
sum_of(rts, key) ==
    IF rts = <<>> THEN 0 ELSE Head(rts)[key] + sum_of(Tail(rts), key)

\* num / den * scale rounded to the nearest integer, den > 0; a tie goes to
\* the even integer
round_ratio(num, den, scale) ==
    LET n == IF num < 0 THEN 0 - num ELSE num
        q == (n * scale) \div den
        r == (n * scale) % den
        m == IF 2 * r < den THEN q
             ELSE IF 2 * r > den THEN q + 1
             ELSE IF q % 2 = 0 THEN q ELSE q + 1
    IN IF num < 0 THEN 0 - m ELSE m

\* a slip: "else" for "elif rt['pnl'] < 0", a break-even counted as a loss
group_stats_else(rts, group_key) ==
    LET keys == {rts[i][group_key] : i \in 1..Len(rts)} IN
    [k \in keys |->
        LET members == SelectSeq(rts, LAMBDA rt : rt[group_key] = k) IN
        [count |-> Len(members),
         pnl |-> sum_of(members, "pnl"),
         wins |-> Len(SelectSeq(members, LAMBDA rt : rt.pnl > 0)),
         losses |-> Len(SelectSeq(members, LAMBDA rt : ~(rt.pnl > 0)))]]

\* _group_stats(group_key)
group_stats(rts, group_key) ==
    LET keys == {rts[i][group_key] : i \in 1..Len(rts)} IN
    [k \in keys |->
        LET members == SelectSeq(rts, LAMBDA rt : rt[group_key] = k) IN
        [count |-> Len(members),
         pnl |-> sum_of(members, "pnl"),
         wins |-> Len(SelectSeq(members, LAMBDA rt : rt.pnl > 0)),
         losses |-> Len(SelectSeq(members, LAMBDA rt : rt.pnl < 0))]]

\* the dict {}
EmptyDict == [k \in {} |-> 0]

\* get_statistics.  Money in thousandths, win_rate in tenths of a percent,
\* profit_factor in hundredths.  avg_duration_formatted is the text of
\* avg_duration_seconds and is left out.
get_statistics(rts, open, unmatched) ==
    IF rts = <<>> THEN EmptyDict
    ELSE
    LET total == Len(rts)
        winners == SelectSeq(rts, LAMBDA rt : rt.pnl > 0)
        losers == SelectSeq(rts, LAMBDA rt : rt.pnl < 0)
        breakeven == SelectSeq(rts, LAMBDA rt : rt.pnl = 0)
        total_pnl == sum_of(rts, "pnl")
        total_fees == sum_of(rts, "total_fees")
        avg_win == IF winners # <<>>
                   THEN 10 * round_ratio(sum_of(winners, "pnl"), 10 * Len(winners), 1)
                   ELSE 0
        avg_loss == IF losers # <<>>
                    THEN 10 * round_ratio(sum_of(losers, "pnl"), 10 * Len(losers), 1)
                    ELSE 0
        gross_profit == sum_of(winners, "pnl")
        gross_loss == LET l == sum_of(losers, "pnl") IN IF l < 0 THEN 0 - l ELSE l
        profit_factor == IF gross_loss > 0
                         THEN round_ratio(gross_profit, gross_loss, 100)
                         ELSE 0
        avg_duration == sum_of(rts, "duration_seconds") \div total
        pnls == {rts[i].pnl : i \in 1..total}
    IN [total_roundtrips |-> total,
        winning_trades |-> Len(winners),
        losing_trades |-> Len(losers),
        breakeven_trades |-> Len(breakeven),
        win_rate |-> round_ratio(Len(winners), total, 1000),
        total_pnl |-> round2(total_pnl),
        total_fees |-> round2(total_fees),
        total_net_pnl |-> round2(total_pnl - total_fees),
        avg_win |-> avg_win,
        avg_loss |-> avg_loss,
        profit_factor |-> profit_factor,
        max_win |-> round2(CHOOSE x \in pnls : \A y \in pnls : y <= x),
        max_loss |-> round2(CHOOSE x \in pnls : \A y \in pnls : x <= y),
        avg_duration_seconds |-> avg_duration,
        by_contract |-> group_stats(rts, "contract"),
        by_direction |-> group_stats(rts, "direction"),
        open_positions |-> Len(open),
        unmatched_exits |-> Len(unmatched)]

\* transformer.get_statistics()
GetStatistics ==
    /\ tr_pc = "transformed"
    /\ statistics = None
    /\ statistics' = Some(get_statistics(roundtrips, open_positions,
                                         unmatched_exits))
    /\ UNCHANGED <<trades, roundtrips, open_positions, unmatched_exits, tr_pc,
                   match_vars, create_vars, run_vars, sync_vars,
                   sched_vars>>

\* no call of _create_roundtrip or get_statistics under way
CreateIdle ==
    /\ cr_entry_trade = None
    /\ cr_exit_trade = None
    /\ cr_roundtrip = None

StatisticsIdle == statistics = None

(***************************************************************************)
(* Specifications                                                          *)
(***************************************************************************)
InitTransform ==
    /\ trades = <<>>
    /\ TransformerInit
    /\ SyncInit
    /\ SchedInit
    /\ MatchInit
    /\ CreateIdle
    /\ StatisticsIdle
    /\ RunIdle
    /\ accounts = {}

NextTransform ==
    \/ \E shape \in TradeShapes : FetchTrade(shape)
    \/ Transform
    \/ TransformAgain

SpecTransform == InitTransform /\ [][NextTransform]_vars

\* transform over the longer lists of plainer trades
NextSorted ==
    \/ \E shape \in SortedShapes : FetchSortedTrade(shape)
    \/ Transform

SpecSorted == InitTransform /\ [][NextSorted]_vars

InitSync ==
    /\ trades = <<>>
    /\ TransformerInit
    /\ SyncInit
    /\ SchedInit
    /\ MatchInit
    /\ CreateIdle
    /\ StatisticsIdle
    /\ RunIdle
    /\ accounts = {}

\* passes one after the other, with either value of skip_existing
NextSync ==
    \E c \in SeqCallers :
        \/ \E rts \in RoundtripLists, skip_existing \in BOOLEAN :
               SyncCall(c, rts, skip_existing)
        \/ SyncQueryOk(c)
        \/ SyncQueryFail(c)
        \/ SyncSkip(c)
        \/ SyncCreateOk(c)
        \/ SyncCreateFail(c)
        \/ SyncReturn(c)

SpecSync == InitSync /\ [][NextSync]_vars

\* passes one after the other, all with skip_existing=True
NextSyncSkip ==
    \E c \in SeqCallers :
        \/ \E rts \in RoundtripLists : SyncCall(c, rts, TRUE)
        \/ SyncQueryOk(c)
        \/ SyncQueryFail(c)
        \/ SyncSkip(c)
        \/ SyncCreateOk(c)
        \/ SyncCreateFail(c)
        \/ SyncReturn(c)

SpecSyncSkip == InitSync /\ [][NextSyncSkip]_vars

\* two passes at the same time (two _sync_async threads, or two instances of
\* the application on one database), each over a list of at most one
\* round-trip, with skip_existing=True
NextSyncConcurrent ==
    \E c \in SyncCallers :
        \/ \E rts \in {l \in RoundtripLists : Len(l) <= 1} : SyncCall(c, rts, TRUE)
        \/ SyncQueryOk(c)
        \/ SyncQueryFail(c)
        \/ SyncSkip(c)
        \/ SyncCreateOk(c)
        \/ SyncCreateFail(c)
        \/ SyncReturn(c)

SpecSyncConcurrent == InitSync /\ [][NextSyncConcurrent]_vars

\* the loop over the exits of one contract, turn by turn
InitMatch ==
    /\ trades = <<>>
    /\ TransformerInit
    /\ SyncInit
    /\ SchedInit
    /\ MatchInit
    /\ CreateIdle
    /\ StatisticsIdle
    /\ RunIdle
    /\ accounts = {}

NextMatch ==
    \/ \E shape \in LegShapes : QueueEntry(shape)
    \/ \E shape \in LegShapes : NextExit(shape)
    \/ MatchExit

SpecMatch == InitMatch /\ [][NextMatch]_vars

\* _create_roundtrip on its own, for every pair of legs
InitCreate ==
    /\ trades = <<>>
    /\ TransformerInit
    /\ SyncInit
    /\ SchedInit
    /\ MatchInit
    /\ CreateInit
    /\ StatisticsIdle
    /\ RunIdle
    /\ accounts = {}

NextCreate == CreateRoundtrip

SpecCreate == InitCreate /\ [][NextCreate]_vars

\* get_statistics on its own, for every list transform may have left
InitStats ==
    /\ trades = <<>>
    /\ roundtrips \in StatLists
    /\ open_positions = <<>>
    /\ unmatched_exits = <<>>
    /\ tr_pc = "transformed"
    /\ SyncInit
    /\ SchedInit
    /\ MatchInit
    /\ CreateIdle
    /\ StatisticsIdle
    /\ RunIdle
    /\ accounts = {}

NextStats == GetStatistics

SpecStats == InitStats /\ [][NextStats]_vars

\* the scheduler on its own: no account is loaded, so a callback finds nothing
\* to sync
InitSched ==
    /\ trades = <<>>
    /\ TransformerInit
    /\ SyncInit
    /\ SchedInit
    /\ MatchInit
    /\ CreateIdle
    /\ StatisticsIdle
    /\ RunIdle
    /\ accounts = {}

NextSched ==
    \/ \E interval \in Intervals : StartAutoSync(interval)
    \/ StartAutoSyncStart
    \/ StopAutoSync
    \/ Tick
    \/ \E l \in LoopIds :
          \/ LoopWhile(l)
          \/ LoopSetNext(l)
          \/ LoopWait(l)
          \/ LoopCheck(l)
          \/ LoopCallback(l)

SpecSched == InitSched /\ [][NextSched]_vars

\* the application with its accounts loaded: manual syncs, the scheduler and
\* the sync pipelines together
InitApp ==
    /\ trades = <<>>
    /\ TransformerInit
    /\ SyncInit
    /\ SchedInit
    /\ MatchInit
    /\ CreateIdle
    /\ StatisticsIdle
    /\ RunIdle
    /\ accounts = AllAccounts

NextApp ==
    \/ \E interval \in Intervals : StartAutoSync(interval)
    \/ StartAutoSyncStart
    \/ StopAutoSync
    \/ StartSync
    \/ StartSyncAll
    \/ UiAfter
    \/ Tick
    \/ \E l \in LoopIds :
          \/ LoopWhile(l)
          \/ LoopSetNext(l)
          \/ LoopWait(l)
          \/ LoopCheck(l)
          \/ LoopCallback(l)
    \/ \E p \in PipelineIds : PipelineFinish(p)

SpecApp == InitApp /\ [][NextApp]_vars

\* a session of the application in which automatic sync is switched on once:
\* start_auto_sync while no scheduler thread was ever started
FirstStartAutoSync(interval) ==
    /\ thread = None
    /\ StartAutoSync(interval)

NextAuto ==
    \/ \E interval \in Intervals : FirstStartAutoSync(interval)
    \/ StartAutoSyncStart
    \/ StopAutoSync
    \/ StartSync
    \/ StartSyncAll
    \/ UiAfter
    \/ Tick
    \/ \E l \in LoopIds :
          \/ LoopWhile(l)
          \/ LoopSetNext(l)
          \/ LoopWait(l)
          \/ LoopCheck(l)
          \/ LoopCallback(l)
    \/ \E p \in PipelineIds : PipelineFinish(p)

SpecAuto == InitApp /\ [][NextAuto]_vars

\* automatic sync switched on once and never stopped, time going on for ever
NextLoop ==
    \/ \E interval \in Intervals : FirstStartAutoSync(interval)
    \/ StartAutoSyncStart
    \/ UiAfter
    \/ TickOn
    \/ \E l \in LoopIds :
          \/ LoopWhile(l)
          \/ LoopSetNext(l)
          \/ LoopWait(l)
          \/ LoopCheck(l)
          \/ LoopCallback(l)
    \/ \E p \in PipelineIds : PipelineFinish(p)

\* the UI thread, the loop thread and the sync threads are scheduled, and
\* seconds pass
FairLoop ==
    /\ WF_vars(StartAutoSyncStart)
    /\ WF_vars(UiAfter)
    /\ WF_vars(TickOn)
    /\ \A p \in PipelineIds : WF_vars(PipelineFinish(p))
    /\ \A l \in LoopIds :
          /\ WF_vars(LoopWhile(l))
          /\ WF_vars(LoopSetNext(l))
          /\ WF_vars(LoopWait(l))
          /\ WF_vars(LoopCheck(l))
          /\ WF_vars(LoopCallback(l))

SpecLoop == InitApp /\ [][NextLoop]_vars /\ FairLoop

\* one sync thread followed through its accounts, started by hand or by the
\* scheduler's callback, next to the other sync threads and the UI thread
InitRun ==
    /\ trades = <<>>
    /\ TransformerInit
    /\ SyncInit
    /\ SchedInit
    /\ MatchInit
    /\ CreateIdle
    /\ StatisticsIdle
    /\ RunIdle
    /\ accounts = AllAccounts

NextRun ==
    \/ \E accts \in AccountLists : RunStartManual(accts)
    \/ \E accts \in AccountLists : RunStartAuto(accts)
    \/ \E empty \in BOOLEAN : RunGetTrades(empty)
    \/ RunGetTradesRaises
    \/ \E n \in 0..MaxRunRoundtrips : RunTransform(n)
    \/ RunTransformRaises
    \/ \E sync_result \in SyncResults(run_roundtrips) : RunSync(sync_result)
    \/ RunSyncRaises
    \/ RunExcept
    \/ RunFinally
    \/ StartSync
    \/ \E p \in PipelineIds : PipelineFinish(p)
    \/ UiAfter

\* the threads are scheduled: the sync threads go on, the UI thread runs the
\* callbacks handed to it
FairRun ==
    /\ WF_vars(\E empty \in BOOLEAN : RunGetTrades(empty))
    /\ WF_vars(\E n \in 0..MaxRunRoundtrips : RunTransform(n))
    /\ WF_vars(\E sync_result \in SyncResults(run_roundtrips) :
                  RunSync(sync_result))
    /\ WF_vars(RunExcept)
    /\ WF_vars(RunFinally)
    /\ \A p \in PipelineIds : WF_vars(PipelineFinish(p))
    /\ WF_vars(UiAfter)

SpecRun == InitRun /\ [][NextRun]_vars /\ FairRun

(***************************************************************************)
(* Claims about the transformer                                            *)
(***************************************************************************)
\* transform has run
transformed == tr_pc \in {"transformed", "transformed_again"}

Count(s, P(_)) == Cardinality({i \in 1..Len(s) : P(s[i])})

ClosingLegs == {i \in 1..Len(trades) : trades[i].profitAndLoss # None}
OpeningLegs == {i \in 1..Len(trades) : trades[i].profitAndLoss = None}

AsExit(t) == Count(roundtrips, LAMBDA r : r.exit.trade_id = t.id)
AsEntry(t) == Count(roundtrips, LAMBDA r : r.entry.trade_id = t.id)
InUnmatched(t) == Count(unmatched_exits, LAMBDA u : u = t)
InOpen(t) == Count(open_positions, LAMBDA u : u = t)

\* C1: after transform, every closing leg of the input is the exit of exactly
\* one round-trip or is listed (once) in unmatched_exits, never both and never
\* neither.
C1_ClosingLegExactlyOnce ==
    tr_pc = "transformed" =>
        \A i \in ClosingLegs : AsExit(trades[i]) + InUnmatched(trades[i]) = 1

C1_Witness ==
    /\ tr_pc = "transformed"
    /\ Len(roundtrips) >= 1
    /\ Len(unmatched_exits) >= 1
    /\ \E i \in ClosingLegs : trades[i].profitAndLoss = Some(0)

\* C2: after transform, every opening leg of the input is the entry of exactly
\* one round-trip or is listed (once) in open_positions, never both, and no
\* opening leg is the entry of two round-trips.
C2_OpeningLegExactlyOnce ==
    tr_pc = "transformed" =>
        \A i \in OpeningLegs :
            /\ AsEntry(trades[i]) + InOpen(trades[i]) = 1
            /\ AsEntry(trades[i]) <= 1

\* a later entry was popped from the middle of the queue and the front entry
\* stayed open
C2_Witness ==
    /\ tr_pc = "transformed"
    /\ Len(roundtrips) = 1
    /\ Len(open_positions) = 1
    /\ open_positions[1].contractId = roundtrips[1].contract_id
    /\ open_positions[1].creationTimestamp < roundtrips[1].entry.timestamp

\* C15: a contract whose trades hold closing legs but no opening leg gets no
\* round-trip, and each of its closing legs is listed in unmatched_exits.
legs_of(contract_id, legs) == {i \in legs : trades[i].contractId = contract_id}

C15_ExitsOnlyContract ==
    tr_pc = "transformed" =>
        \A c \in Contracts :
            (legs_of(c, OpeningLegs) = {} /\ legs_of(c, ClosingLegs) # {}) =>
                /\ \A k \in 1..Len(roundtrips) : roundtrips[k].contract_id # c
                /\ \A i \in legs_of(c, ClosingLegs) : InUnmatched(trades[i]) = 1
                /\ Count(unmatched_exits, LAMBDA u : u.contractId = c)
                       = Cardinality(legs_of(c, ClosingLegs))

\* one contract has two closing legs and no opening leg, the other contract
\* has trades too
C15_Witness ==
    /\ tr_pc = "transformed"
    /\ \E c \in Contracts :
          /\ legs_of(c, OpeningLegs) = {}
          /\ Cardinality(legs_of(c, ClosingLegs)) = 2
          /\ Len(unmatched_exits) = 2
    /\ Len(open_positions) = 1

\* C16 as stated: direction LONG iff the entry is a BUY, points the price
\* difference in the direction of the trade, total_fees the sum of the two
\* fees with an absent fee as 0, pnl the exit's profitAndLoss, and net_pnl
\* exactly pnl - total_fees.
cr_entry == value(cr_entry_trade)
cr_exit == value(cr_exit_trade)
cr_rt == value(cr_roundtrip)
cr_fee(trade) == IF trade.fees = None THEN 0 ELSE value(trade.fees)
cr_move ==
    IF cr_entry.side = BUY THEN cr_exit.price - cr_entry.price
    ELSE cr_entry.price - cr_exit.price

\* r is x rounded to the hundredth: a multiple of 10 thousandths, at most 5
\* away from x, and the even one when x is half-way
rounded_to_hundredth(r, x) ==
    /\ r % 10 = 0
    /\ r - x <= 5 /\ x - r <= 5
    /\ (r - x = 5 \/ x - r = 5) => (r \div 10) % 2 = 0

C16_AmountsExact ==
    cr_roundtrip # None =>
        /\ cr_rt.direction = (IF cr_entry.side = BUY THEN "LONG" ELSE "SHORT")
        /\ cr_rt.points = cr_move
        /\ cr_rt.total_fees = cr_fee(cr_entry) + cr_fee(cr_exit)
        /\ cr_rt.pnl = value(cr_exit.profitAndLoss)
        /\ cr_rt.net_pnl = cr_rt.pnl - cr_rt.total_fees

\* C16 as amended: the same, with points and net_pnl rounded to two decimal
\* places (round(points, 2), round(net_pnl, 2)).
C16_AmountsRounded ==
    cr_roundtrip # None =>
        /\ cr_rt.direction = (IF cr_entry.side = BUY THEN "LONG" ELSE "SHORT")
        /\ rounded_to_hundredth(cr_rt.points, cr_move)
        /\ cr_rt.total_fees = cr_fee(cr_entry) + cr_fee(cr_exit)
        /\ cr_rt.pnl = value(cr_exit.profitAndLoss)
        /\ rounded_to_hundredth(cr_rt.net_pnl, cr_rt.pnl - cr_rt.total_fees)

\* BUY 2 @100 fees 0.5 closed by SELL 2 @105 pnl 10.0 fees 0.5:
\* LONG, points 5, total_fees 1, pnl 10, net_pnl 9
C16_Witness ==
    /\ cr_roundtrip # None
    /\ cr_entry = [side |-> BUY, size |-> 2, price |-> 100000,
                   fees |-> Some(500), profitAndLoss |-> None]
    /\ cr_exit = [side |-> SELL, size |-> 2, price |-> 105000,
                  fees |-> Some(500), profitAndLoss |-> Some(10000)]
    /\ cr_rt.direction = "LONG"
    /\ cr_rt.points = 5000
    /\ cr_rt.total_fees = 1000
    /\ cr_rt.pnl = 10000
    /\ cr_rt.net_pnl = 9000

\* C17: profit_factor is 0 whenever the list holds no losing round-trip
\* (winners or not), otherwise gross_profit / gross_loss (to the hundredth);
\* it is never missing from the result.
st_result == value(statistics)
st_gross_profit ==
    sum_of(SelectSeq(roundtrips, LAMBDA rt : rt.pnl > 0), "pnl")
st_gross_loss ==
    0 - sum_of(SelectSeq(roundtrips, LAMBDA rt : rt.pnl < 0), "pnl")

C17_ProfitFactorDefined ==
    statistics # None =>
        /\ "profit_factor" \in DOMAIN st_result
        /\ st_gross_loss = 0 => st_result.profit_factor = 0
        /\ st_gross_loss > 0 =>
               LET off == 100 * st_gross_profit
                          - st_result.profit_factor * st_gross_loss
               IN 2 * off <= st_gross_loss /\ 0 - 2 * off <= st_gross_loss

\* C25: for a list that is not empty, the winners (pnl > 0), the losers
\* (pnl < 0) and the break-evens (pnl = 0) are counted apart and add up to
\* total_roundtrips; in by_contract and in by_direction the counts of the
\* groups add up to total_roundtrips, their wins to winning_trades and their
\* losses to losing_trades.
st_count(P(_)) == Cardinality({i \in 1..Len(roundtrips) : P(roundtrips[i])})

group_total(groups, field) ==
    LET RECURSIVE total(_)
        total(ks) == IF ks = {} THEN 0
                     ELSE LET k == CHOOSE x \in ks : TRUE
                          IN groups[k][field] + total(ks \ {k})
    IN total(DOMAIN groups)

C25_CountsPartition ==
    (statistics # None /\ roundtrips # <<>>) =>
        /\ st_result.total_roundtrips = Len(roundtrips)
        /\ st_result.winning_trades = st_count(LAMBDA rt : rt.pnl > 0)
        /\ st_result.losing_trades = st_count(LAMBDA rt : rt.pnl < 0)
        /\ st_result.breakeven_trades = st_count(LAMBDA rt : rt.pnl = 0)
        /\ st_result.winning_trades + st_result.losing_trades
               + st_result.breakeven_trades = st_result.total_roundtrips
        /\ \A groups \in {st_result.by_contract, st_result.by_direction} :
              /\ group_total(groups, "count") = st_result.total_roundtrips
              /\ group_total(groups, "wins") = st_result.winning_trades
              /\ group_total(groups, "losses") = st_result.losing_trades

\* a winner, a loser and a break-even, over two contracts and two directions
C25_Witness ==
    /\ statistics # None
    /\ Len(roundtrips) = 3
    /\ st_result.winning_trades = 1
    /\ st_result.losing_trades = 1
    /\ st_result.breakeven_trades = 1
    /\ Cardinality(DOMAIN st_result.by_contract) = 2
    /\ Cardinality(DOMAIN st_result.by_direction) = 2

\* C18: on an empty list get_statistics returns a result in which every
\* count, sum, rate and factor is present and 0.
zero_fields ==
    {"total_roundtrips", "winning_trades", "losing_trades",
     "breakeven_trades", "win_rate", "total_pnl", "total_fees",
     "total_net_pnl", "avg_win", "avg_loss", "profit_factor", "max_win",
     "max_loss", "avg_duration_seconds"}

C18_EmptyIsAllZero ==
    (statistics # None /\ roundtrips = <<>>) =>
        /\ zero_fields \subseteq DOMAIN st_result
        /\ \A f \in zero_fields : st_result[f] = 0

\* C19: when the queue holds an entry of the opposite side and the same size,
\* the turn pairs the exit with the first such entry in queue order, takes it
\* out of the queue, and leaves every other entry where it stood.
match_step == loop_exit_trade # None /\ matched = None /\ matched' # None

opposite_same_size ==
    {i \in 1..Len(loop_entry_queue) :
        /\ loop_entry_queue[i].side # value(loop_exit_trade).side
        /\ loop_entry_queue[i].size = value(loop_exit_trade).size}

C19_EarliestMatchIsPaired ==
    [][(match_step /\ opposite_same_size # {}) =>
          \E i \in opposite_same_size :
              /\ \A k \in opposite_same_size : i <= k
              /\ matched' = Some([unmatched |-> FALSE,
                                  entry |-> loop_entry_queue[i]])
              /\ Len(loop_entry_queue') = Len(loop_entry_queue) - 1
              /\ \A k \in 1..Len(loop_entry_queue') :
                    loop_entry_queue'[k] =
                        IF k < i THEN loop_entry_queue[k]
                        ELSE loop_entry_queue[k + 1]]_vars

\* the entry taken stood between two entries that stayed
C19_Witness ==
    /\ matched # None
    /\ ~value(matched).unmatched
    /\ Len(loop_entry_queue) = 2
    /\ loop_entry_queue[1].id < value(matched).entry.id
    /\ value(matched).entry.id < loop_entry_queue[2].id
    /\ value(matched).entry.side # value(loop_exit_trade).side
    /\ value(matched).entry.size = value(loop_exit_trade).size

\* C20: when the queue is not empty and holds no entry of the opposite side
\* and the same size, the turn pairs the exit with the front entry whatever
\* its side and size, and the exit is not reported unmatched.
C20_FifoFallback ==
    [][(match_step /\ loop_entry_queue # <<>> /\ opposite_same_size = {}) =>
          /\ matched' = Some([unmatched |-> FALSE,
                              entry |-> Head(loop_entry_queue)])
          /\ loop_entry_queue' = Tail(loop_entry_queue)]_vars

\* the exit was paired with an entry of its own side, entries stayed behind
C20_Witness ==
    /\ matched # None
    /\ ~value(matched).unmatched
    /\ value(matched).entry.side = value(loop_exit_trade).side
    /\ loop_entry_queue # <<>>
    /\ value(matched).entry.id < loop_entry_queue[1].id

\* C26: a round-trip never pairs an exit with an entry that comes after it:
\* entry timestamp <= exit timestamp, and duration_seconds >= 0.
C26_EntryNotAfterExit ==
    transformed =>
        \A k \in 1..Len(roundtrips) :
            /\ roundtrips[k].entry.timestamp <= roundtrips[k].exit.timestamp
            /\ roundtrips[k].duration_seconds >= 0

\* C27: a contract with E opening legs and X closing legs in the list gives
\* min(E, X) round-trips, max(0, X - E) unmatched exits and max(0, E - X)
\* open positions, whatever the sides, sizes and timestamps.
min_of(a, b) == IF a <= b THEN a ELSE b
positive_part(a) == IF a >= 0 THEN a ELSE 0

C27_CountsPerContract ==
    transformed =>
        \A contract_id \in Contracts :
            LET E == Cardinality(legs_of(contract_id, OpeningLegs))
                X == Cardinality(legs_of(contract_id, ClosingLegs))
            IN /\ Count(roundtrips, LAMBDA r : r.contract_id = contract_id)
                      = min_of(E, X)
               /\ Count(unmatched_exits, LAMBDA t : t.contractId = contract_id)
                      = positive_part(X - E)
               /\ Count(open_positions, LAMBDA t : t.contractId = contract_id)
                      = positive_part(E - X)

\* two opening legs and one closing leg of one contract, the closing leg of
\* the side and of another size than the leg it was paired with
C27_Witness ==
    /\ tr_pc = "transformed"
    /\ Len(roundtrips) = 1
    /\ Len(open_positions) = 1
    /\ open_positions[1].contractId = roundtrips[1].contract_id
    /\ roundtrips[1].entry.side = roundtrips[1].exit.side
    /\ \E i \in 1..Len(trades) :
          /\ trades[i].id = roundtrips[1].entry.trade_id
          /\ trades[i].size # roundtrips[1].size

\* C21: the round-trips transform returns stand in ascending order of exit
\* timestamp, across contracts, whatever the order of the input.
C21_SortedByExit ==
    tr_pc = "transformed" =>
        \A i, j \in 1..Len(roundtrips) :
            i < j => roundtrips[i].exit.timestamp <= roundtrips[j].exit.timestamp

\* two round-trips of two contracts, and the contract that comes first in the
\* input closes last: the round-trip created second stands first
C21_Witness ==
    /\ tr_pc = "transformed"
    /\ Len(roundtrips) = 2
    /\ roundtrips[1].contract_id # roundtrips[2].contract_id
    /\ roundtrips[1].roundtrip_id = 2
    /\ roundtrips[1].exit.timestamp < roundtrips[2].exit.timestamp

\* C14: the output is fixed by the input list.  Trades of one contract with
\* the same timestamp keep their input order: in open_positions and in
\* unmatched_exits the trades of a contract stand by (timestamp, input
\* position), the round-trips stand by (exit timestamp, roundtrip_id), and the
\* roundtrip_ids of a contract follow the (timestamp, input position) of their
\* exits.  A second run over the same list leaves the three lists as they were.
in_input_order(s) ==
    \A i, j \in 1..Len(s) :
        (i < j /\ s[i].contractId = s[j].contractId) =>
            \/ s[i].creationTimestamp < s[j].creationTimestamp
            \/ /\ s[i].creationTimestamp = s[j].creationTimestamp
               /\ s[i].id < s[j].id

C14_TieOrder ==
    transformed =>
        /\ in_input_order(open_positions)
        /\ in_input_order(unmatched_exits)
        /\ \A i, j \in 1..Len(roundtrips) :
              LET a == roundtrips[i]
                  b == roundtrips[j]
              IN /\ i < j =>
                       \/ a.exit.timestamp < b.exit.timestamp
                       \/ /\ a.exit.timestamp = b.exit.timestamp
                          /\ a.roundtrip_id < b.roundtrip_id
                 /\ (a.contract_id = b.contract_id
                        /\ a.roundtrip_id < b.roundtrip_id) =>
                       \/ a.exit.timestamp < b.exit.timestamp
                       \/ /\ a.exit.timestamp = b.exit.timestamp
                          /\ a.exit.trade_id < b.exit.trade_id

C14_Deterministic ==
    /\ []C14_TieOrder
    /\ [][(tr_pc = "transformed" /\ tr_pc' = "transformed_again") =>
             UNCHANGED <<roundtrips, open_positions, unmatched_exits>>]_vars

\* a second run is over, and two trades of one contract with one timestamp
\* stand in open_positions
C14_Witness ==
    /\ tr_pc = "transformed_again"
    /\ Len(open_positions) >= 2
    /\ open_positions[1].contractId = open_positions[2].contractId
    /\ open_positions[1].creationTimestamp = open_positions[2].creationTimestamp

(***************************************************************************)
(* Claims about sync_roundtrips                                            *)
(***************************************************************************)

\* C3: sync_roundtrips called a second time with the same list and
\* skip_existing=True, the database holding what the first call wrote, creates
\* nothing: created = 0.  (Read with the first call free of errors, so that
\* every round-trip of the list was written or already there.)
C3_SecondCallCreatesNothing ==
    \A c \in SeqCallers :
        (rerun[c] /\ sync_pc[c] \in {"loop", "returned"}) => stats[c].created = 0

\* C4: after any sequence of non-overlapping passes with skip_existing=True
\* the database holds every pair (entry trade id, exit trade id) at most once.
C4_NoDuplicatePages ==
    \A pair \in IdPairs : pages[pair] <= 1

\* C10: a create that fails adds one to errors and the loop goes on to the
\* next round-trip: created, skipped, the existing-key set and the list are
\* untouched and the call is not left.
C10_step(c) ==
    /\ in_loop(c)
    /\ current_key(c) \notin existing_ids[c]
    /\ pages' = pages
    /\ <<sync_pc[c], sync_i[c], stats[c]>>' # <<sync_pc[c], sync_i[c], stats[c]>>

C10_CreateFailureIsTallied ==
    [][\A c \in SyncCallers :
          C10_step(c) =>
              /\ stats'[c] = [stats[c] EXCEPT !.errors = @ + 1]
              /\ sync_i'[c] = sync_i[c] + 1
              /\ sync_pc'[c] = "loop"
              /\ existing_ids'[c] = existing_ids[c]
              /\ sync_args'[c] = sync_args[c]]_vars

\* the first create failed, the second one went through, the call returned
C10_Witness ==
    \E c \in SyncCallers :
        /\ sync_pc[c] = "returned"
        /\ Len(sync_args[c].roundtrips) = 2
        /\ stats[c] = [created |-> 1, skipped |-> 0, errors |-> 1]
        /\ pages[<<sync_args[c].roundtrips[1].entry.trade_id,
                   sync_args[c].roundtrips[1].exit.trade_id>>] = 0
        /\ pages[<<sync_args[c].roundtrips[2].entry.trade_id,
                   sync_args[c].roundtrips[2].exit.trade_id>>] = 1

\* C11: with skip_existing=True, a failure of the existence query ends the
\* call with the error: the database is as it was, nothing was created,
\* skipped or tallied, the call never reaches its loop or its return, and the
\* loop is only ever entered with the answer of the query.
zero_stats == [created |-> 0, skipped |-> 0, errors |-> 0]

C11_QueryFailureAborts ==
    [][\A c \in SyncCallers :
          /\ (sync_pc[c] = "query" /\ sync_pc'[c] = "raised") =>
                 /\ pages' = pages
                 /\ stats'[c] = zero_stats
                 /\ sync_i'[c] = 1
          /\ (sync_pc[c] = "query" /\ sync_pc'[c] = "loop") =>
                 existing_ids'[c] = get_existing_roundtrip_ids
          /\ (sync_pc[c] = "raised" /\ sync_pc'[c] = "raised") =>
                 /\ pages' = pages
                 /\ stats'[c] = stats[c]
          /\ sync_pc[c] = "raised" => sync_pc'[c] \in {"raised", "query"}]_vars

\* the query failed over a database that holds pages, for a list with work
C11_Witness ==
    \E c \in SyncCallers :
        /\ sync_pc[c] = "raised"
        /\ sync_args[c].skip_existing
        /\ Len(sync_args[c].roundtrips) >= 1
        /\ current_key(c) \notin get_existing_roundtrip_ids
        /\ stored_pairs # {}
        /\ stats[c] = zero_stats

\* C22: in a pass with skip_existing=True the key set is read once, before
\* any round-trip is handled, and stays as read until the pass is over; a
\* round-trip whose key is in the set adds one to skipped and creates no page.
C22_KeysReadOnce ==
    [][\A c \in SyncCallers :
          /\ sync_pc[c] = "query" =>
                 /\ sync_args[c].skip_existing
                 /\ stats[c] = zero_stats
                 /\ sync_i[c] = 1
          /\ (sync_pc[c] = "loop" /\ sync_pc'[c] \in {"loop", "returned"}) =>
                 existing_ids'[c] = existing_ids[c]
          /\ (in_loop(c) /\ current_key(c) \in existing_ids[c]
                 /\ sync_i'[c] # sync_i[c]) =>
                 /\ sync_i'[c] = sync_i[c] + 1
                 /\ stats'[c] = [stats[c] EXCEPT !.skipped = @ + 1]
                 /\ pages' = pages]_vars

\* a pass has skipped one round-trip and created another, so that the set it
\* read no longer is what the database holds
C22_Witness ==
    \E c \in SyncCallers :
        /\ sync_pc[c] = "returned"
        /\ sync_args[c].skip_existing
        /\ stats[c].skipped >= 1
        /\ stats[c].created >= 1
        /\ existing_ids[c] # {}
        /\ existing_ids[c] # get_existing_roundtrip_ids

\* C23: with skip_existing=False the keys are not queried; every round-trip
\* of the list, in order, gets its create, stored already or not, and skipped
\* stays 0.
C23_NoSkipNoQuery ==
    \A c \in SyncCallers :
        ~sync_args[c].skip_existing =>
            /\ sync_pc[c] \in {"loop", "returned"}
            /\ existing_ids[c] = {}
            /\ stats[c].skipped = 0
            /\ stats[c].created + stats[c].errors = sync_i[c] - 1
            /\ sync_pc[c] = "returned" =>
                   sync_i[c] = Len(sync_args[c].roundtrips) + 1
            /\ (in_loop(c) /\ total_pages < MaxPages) => ENABLED SyncCreateOk(c)

\* a pass without the skip has returned after creating a page for a
\* round-trip the database already held under a key the query would report
C23_Witness ==
    \E c \in SyncCallers :
        /\ sync_pc[c] = "returned"
        /\ ~sync_args[c].skip_existing
        /\ stats[c].created = Len(sync_args[c].roundtrips)
        /\ \E k \in 1..Len(sync_args[c].roundtrips) :
              LET rt == sync_args[c].roundtrips[k]
                  pair == <<rt.entry.trade_id, rt.exit.trade_id>>
              IN /\ truthy(pair[1]) /\ truthy(pair[2])
                 /\ pages[pair] >= 2

\* C28: when sync_roundtrips returns, created + skipped + errors is the
\* length of the list it was given, and none of the three is negative.
C28_CountersAddUp ==
    \A c \in SyncCallers :
        sync_pc[c] = "returned" =>
            /\ stats[c].created + stats[c].skipped + stats[c].errors
                   = Len(sync_args[c].roundtrips)
            /\ stats[c].created >= 0
            /\ stats[c].skipped >= 0
            /\ stats[c].errors >= 0

\* a pass over two round-trips has returned with one skipped and one failed
C28_Witness ==
    \E c \in SyncCallers :
        /\ sync_pc[c] = "returned"
        /\ Len(sync_args[c].roundtrips) = 2
        /\ stats[c].skipped = 1
        /\ stats[c].errors = 1

\* C12: nothing coordinates two passes: a pass whose snapshot of the keys
\* lacks the key of its round-trip can create the page whatever the database
\* holds by then, so two passes over the same round-trip can both create it.
C12_WritersNotCoordinated ==
    \A c \in SyncCallers :
        (in_loop(c) /\ current_key(c) \notin existing_ids[c]
                    /\ total_pages < MaxPages)
            => ENABLED SyncCreateOk(c)

\* both passes were over the same round-trip with truthy ids, both created
\* it, and the database holds it twice
C12_Witness ==
    /\ \A c \in SyncCallers :
           /\ sync_pc[c] = "returned"
           /\ stats[c] = [created |-> 1, skipped |-> 0, errors |-> 0]
    /\ sync_args[1].roundtrips = sync_args[2].roundtrips
    /\ \E pair \in IdPairs :
           /\ truthy(pair[1]) /\ truthy(pair[2])
           /\ sync_args[1].roundtrips = <<Roundtrip(pair)>>
           /\ pages[pair] = 2

(***************************************************************************)
(* Claims about the scheduler and the application                          *)
(***************************************************************************)
old_loop(l) == Some(l) # thread

\* C5: after stop() and a new start(), the loop thread of the earlier start()
\* observes the stop signal: its next test of the signal ends it, it does not
\* go on waiting and does not invoke the callback.
C5_OldLoopObservesStop ==
    [][\A l \in LoopIds :
          (old_loop(l) /\ loops'[l] # loops[l]) =>
              /\ loops[l].pc = "while" => loops'[l].pc = "none"
              /\ loops[l].pc = "wait" => loops'[l].pc = "none"
              /\ loops[l].pc = "check" => loops'[l].pc # "callback"]_vars

\* C6: a loop that was in its wait when stop() was called never gets to invoke
\* the callback.
C6_NoCallbackAfterStopInWait ==
    \A l \in LoopIds : loops[l].cancelled => loops[l].pc # "callback"

\* C7: while the scheduler is stopped, get_remaining_time() returns "--:--".
C7_StoppedSentinel ==
    ~is_running => get_remaining_time = <<"--:--">>

\* C8: at most one _sync_async thread is running at any time.
C8_OnePipeline ==
    Cardinality(running_pipelines) <= 1

\* C13: stop() leaves a sync that is under way alone: the _sync_async threads,
\* the pending UI callbacks and is_syncing are as they were, every running
\* thread can still run to its end, and what stop() suppresses is the trigger:
\* no loop gets to its callback unless the scheduler is running.
stop_step ==
    /\ is_running' = FALSE /\ stop_event' = TRUE /\ next_sync_time' = None
    /\ (is_running \/ ~stop_event \/ next_sync_time # None)

C13_StopDoesNotInterrupt ==
    /\ [](\A p \in PipelineIds :
             (pipelines[p] = "running" /\ Len(ui_queue) < MaxQueue)
                 => ENABLED PipelineFinish(p))
    /\ [][/\ stop_step => UNCHANGED <<pipelines, ui_queue, is_syncing>>
          /\ \A l \in LoopIds :
                (loops[l].pc # "callback" /\ loops'[l].pc = "callback")
                    => (is_running /\ ~stop_event)]_vars

\* the scheduler was stopped while a sync started by it was under way
C13_Witness ==
    /\ ~is_running
    /\ stop_event
    /\ running_pipelines # {}
    /\ \A l \in LoopIds : loops[l].pc = "none"

\* C24: while the scheduler runs and stop() is never called, a wait that
\* completes leads to one callback, then to the top of the loop, a new
\* next_sync_time and the next wait; with the threads scheduled and time
\* passing, the callback is invoked again and again.
loop_step(l, from, to) ==
    (loops[l].pc = from /\ loops'[l].pc # from) => loops'[l].pc = to

at_callback == \E l \in LoopIds : loops[l].pc = "callback"

C24_LoopRound ==
    \A l \in LoopIds :
        /\ loop_step(l, "wait", "check")
        /\ loop_step(l, "check", "callback")
        /\ loop_step(l, "callback", "while")
        /\ loop_step(l, "while", "set_next")
        /\ loop_step(l, "set_next", "wait")
        /\ (loops[l].pc = "set_next" /\ loops'[l].pc = "wait") =>
               /\ next_sync_time'
                      = Some(now + interval_minutes * TicksPerMinute)
               /\ loops'[l].left = interval_minutes * TicksPerMinute

C24_CallbackAgainAndAgain ==
    /\ [][C24_LoopRound]_vars
    /\ [](is_running => ~stop_event)
    /\ is_running ~> at_callback

\* the wait of a running scheduler is over and the callback is being invoked
C24_Witness ==
    /\ is_running
    /\ ~stop_event
    /\ \E l \in LoopIds :
          /\ loops[l].pc = "callback"
          /\ loops[l].left = 0
          /\ thread = Some(l)

\* C9: start(interval) while is_running changes nothing of the scheduler: no
\* new loop thread, interval_minutes, next_sync_time and the stop signal as
\* they were.
C9_StartWhileRunningNoop ==
    [][(ui_pc = "start" /\ ui_pc' = "idle" /\ is_running) =>
          UNCHANGED <<is_running, interval_minutes, next_sync_time, stop_event,
                      thread, loops>>]_vars

\* start() returned early although another interval was asked for
C9_Witness ==
    /\ ui_pc = "idle"
    /\ is_running
    /\ ui_interval \in Intervals
    /\ ui_interval # interval_minutes
    /\ next_sync_time # None

(***************************************************************************)
(* Claims about one sync run                                               *)
(***************************************************************************)
\* the except clause of the account loop is left
except_step == run_pc = "except" /\ run_pc' # "except"

\* the loop goes on with the account after this one, in the order of the list
rest_in_order ==
    /\ run_i' = run_i + 1
    /\ run_accounts' = run_accounts
    /\ run_pc' = IF run_i < Len(run_accounts) THEN "get_trades" ELSE "finally"

\* C30 as stated: a failure while one account is processed adds exactly one
\* to the error total and leaves the round-trip, created and skipped totals
\* as that account's turn found them; the remaining accounts are still
\* processed in order.
C30_FailureLeavesOtherTotals ==
    [][except_step =>
          /\ total_stats' = [run_before EXCEPT !.errors = @ + 1]
          /\ rest_in_order]_vars

\* C30: a failure while one account is processed adds exactly one to the
\* error total and leaves the created and skipped totals as that account's
\* turn found them; the round-trip total is as the turn found it too, plus
\* that account's round-trips when it was the sync call that raised; the
\* remaining accounts are still processed in order, the finally clause
\* reached only after the last.
C30_FailureCountsOnce ==
    /\ [][except_step =>
             /\ total_stats'.errors = run_before.errors + 1
             /\ total_stats'.created = run_before.created
             /\ total_stats'.skipped = run_before.skipped
             /\ total_stats'.roundtrips =
                    run_before.roundtrips + run_roundtrips
             /\ rest_in_order]_vars
    /\ [](run_pc = "finally" => run_i = Len(run_accounts) + 1)
    /\ [](run_pc \in {"get_trades", "transform"} => run_roundtrips = 0)

\* the sync call of the first of two accounts raised, its round-trips counted
\* and one error, and the second account is being fetched
C30_Witness ==
    /\ run_pc = "get_trades"
    /\ Len(run_accounts) = 2
    /\ run_i = 2
    /\ total_stats.errors = 1
    /\ total_stats.roundtrips > 0
    /\ total_stats.created = 0
    /\ total_stats.skipped = 0

\* C29: every run that sets the busy flag clears it again, also when the
\* fetching, the matching or the syncing of an account raises: is_syncing
\* never stays true for ever.
C29_BusyFlagCleared == is_syncing ~> ~is_syncing

\* a run in which an account failed is over, its _sync_complete has run and
\* the busy flag is cleared
C29_Witness ==
    /\ ~is_syncing
    /\ run_pc = "idle"
    /\ total_stats.errors > 0
    /\ ui_queue = <<>>
    /\ \A p \in PipelineIds : pipelines[p] = "none"

====
